---------------------------- MODULE Spec2Model ----------------------------
(***************************************************************************)
(* A model of the shade_privacy Python SDK (ZKIntentSDK):                  *)
(*   - create_intent: validate, merge, encrypt, timestamp, sign, POST,     *)
(*     and the handling of the HTTP outcome (sdk.py);                      *)
(*   - encrypt_payload / sign_payload (utils/encrypt.py, utils/sign.py);   *)
(*   - listen_proof / connect_websocket: connect, ping, receive loop       *)
(*     (sdk.py, utils/websockets.py).                                      *)
(*                                                                         *)
(* Python values are records [t, s, sgn, items]: t is the Python type,     *)
(* s the text of a str or the repr of a number, sgn the sign of a number   *)
(* (-1, 0, 1), items the (key, value) pairs of a dict in insertion order   *)
(* or the elements of a list.  Strings are TLA+ strings (Len and \o).      *)
(*                                                                         *)
(* The library primitives SHA-256, MD5, AES, base64 and HMAC are free      *)
(* constructors (two results are equal iff their arguments are); lengths,  *)
(* padding, the IV || ciphertext layout, JSON serialisation, the merge and *)
(* all control flow are computed as the code computes them.                *)
(***************************************************************************)
EXTENDS Integers, Sequences, FiniteSets, TLC

VARIABLES
    sdk,          \* the constructed ZKIntentSDK: api_key, hmac_secret, base_url
    op,           \* the API call in progress: "none", "create_intent", "listen"
    now,          \* the wall clock read by datetime.utcnow()
    ci_pc,        \* create_intent: position in the method
    ci_in,        \* create_intent: its arguments
    ci_combined,  \* create_intent: combined_data (0 or 1 element)
    ci_encrypted, \* create_intent: encrypted_data (0 or 1 element)
    ci_timestamp, \* create_intent: timestamp (0 or 1 element)
    ci_signature, \* create_intent: signature (0 or 1 element)
    ci_posts,     \* create_intent: the HTTP POSTs handed to session.post
    ci_reply,     \* create_intent: what session.post produced (0 or 1 element)
    ci_log,       \* create_intent: the calls made so far, in order
    ci_out,       \* create_intent: how the call ended
    ls_pc,        \* listen: position in connect_websocket
    ls_connects,  \* listen: calls of websockets.connect
    ls_conn,      \* listen: the connection: "none", "open", "closed"
    ls_released,  \* listen: exits of the "async with" block (connection close)
    ls_sent,      \* listen: outbound messages written to the connection
    ls_script,    \* listen: what the peer sends: frames, then how it closes
    ls_recvs,     \* listen: completed calls of websocket.recv()
    ls_delivered, \* listen: the values the callback was invoked with, in order
    ls_handler,   \* listen: how each callback invocation ended, in order
    ls_leaving,   \* listen: how the "async with" block is being left (0 or 1 element)
    ls_out        \* listen: how the call ended

ci_vars == <<ci_pc, ci_in, ci_combined, ci_encrypted, ci_timestamp,
             ci_signature, ci_posts, ci_reply, ci_log, ci_out>>
ls_vars == <<ls_pc, ls_connects, ls_conn, ls_released, ls_sent, ls_script, ls_recvs,
             ls_delivered, ls_handler, ls_leaving, ls_out>>
vars == <<sdk, op, now, ci_vars, ls_vars>>

----------------------------------------------------------------------------
(* Bounds of the model *)

\* the clock takes the values 0..MaxClock
MaxClock == 2
\* the peer sends at most MaxFrames frames before it closes
MaxFrames == 2

----------------------------------------------------------------------------
(* Python values *)

V(t, s, sgn, items) == [t |-> t, s |-> s, sgn |-> sgn, items |-> items]
PyNone       == V("none", "None", 0, <<>>)
PyStr(s)     == V("str", s, 0, <<>>)
PyInt(r, g)  == V("int", r, g, <<>>)
PyFloat(r, g) == V("float", r, g, <<>>)
PyTrue       == V("bool", "True", 1, <<>>)
PyFalse      == V("bool", "False", 0, <<>>)
PyBytes(s)   == V("bytes", s, 0, <<>>)
PyList(xs)   == V("list", "", 0, xs)
PyDict(kvs)  == V("dict", "", 0, kvs)
KV(k, v)     == [k |-> k, v |-> v]

\* bool(v): the truth value "not v" tests
Truthy(v) ==
    CASE v.t = "none"  -> FALSE
      [] v.t = "str"   -> v.s # ""
      [] v.t = "bytes" -> v.s # ""
      [] v.t \in {"int", "float", "bool"} -> v.sgn # 0
      [] v.t \in {"list", "dict"} -> v.items # <<>>
      [] OTHER -> TRUE

\* key in d
HasKey(d, k) == \E i \in 1..Len(d.items) : d.items[i].k = k
\* d[k], for a key that is present
Get(d, k) == d.items[CHOOSE i \in 1..Len(d.items) : d.items[i].k = k].v
\* d.get(k, default)
GetOr(d, k, default) == IF HasKey(d, k) THEN Get(d, k) ELSE default

\* {**d, k: v}: an existing key keeps its place and takes the new value,
\* a new key is appended
MergeKey(d, k, v) ==
    IF HasKey(d, k)
    THEN PyDict([i \in 1..Len(d.items) |->
                    IF d.items[i].k = k THEN KV(k, v) ELSE d.items[i]])
    ELSE PyDict(Append(d.items, KV(k, v)))

\* str(v) as an f-string formats it
PyFormat(v) == v.s

\* type(v).__name__
PyTypeName(v) == IF v.t = "none" THEN "NoneType" ELSE v.t

----------------------------------------------------------------------------
(* json.dumps(value, separators=(',', ':')) *)

RECURSIVE Serializable(_)
Serializable(v) ==
    CASE v.t \in {"none", "str", "int", "float", "bool"} -> TRUE
      [] v.t = "list" -> \A i \in 1..Len(v.items) : Serializable(v.items[i])
      [] v.t = "dict" -> \A i \in 1..Len(v.items) : Serializable(v.items[i].v)
      [] OTHER -> FALSE

RECURSIVE Unserializable(_)
\* the object json.dumps stops at, its first in iteration order that is not
\* serializable: <<the object>>, or <<>> when the value is serializable
Unserializable(v) ==
    IF Serializable(v) THEN << >>
    ELSE IF v.t = "list"
    THEN Unserializable(v.items[CHOOSE i \in 1..Len(v.items) :
                            /\ ~Serializable(v.items[i])
                            /\ \A j \in 1..(i - 1) : Serializable(v.items[j])])
    ELSE IF v.t = "dict"
    THEN Unserializable(v.items[CHOOSE i \in 1..Len(v.items) :
                            /\ ~Serializable(v.items[i].v)
                            /\ \A j \in 1..(i - 1) : Serializable(v.items[j].v)].v)
    ELSE << v >>

\* str(e) of the TypeError json.dumps raises for such an object
JsonDumpsErrorText(v) ==
    "Object of type " \o PyTypeName(Unserializable(v)[1]) \o " is not JSON serializable"

RECURSIVE JoinWith(_, _)
\* sep.join(parts)
JoinWith(parts, sep) ==
    IF parts = <<>> THEN ""
    ELSE IF Len(parts) = 1 THEN parts[1]
    ELSE parts[1] \o sep \o JoinWith(Tail(parts), sep)

RECURSIVE JsonDumps(_)
JsonDumps(v) ==
    CASE v.t = "none"  -> "null"
      [] v.t = "bool"  -> IF v.sgn = 1 THEN "true" ELSE "false"
      [] v.t \in {"int", "float"} -> v.s
      [] v.t = "str"   -> "\"" \o v.s \o "\""
      [] v.t = "list"  ->
            "[" \o JoinWith([i \in 1..Len(v.items) |-> JsonDumps(v.items[i])], ",")
                \o "]"
      [] v.t = "dict"  ->
            "{" \o JoinWith([i \in 1..Len(v.items) |->
                               "\"" \o v.items[i].k \o "\":"
                                    \o JsonDumps(v.items[i].v)], ",")
                \o "}"


----------------------------------------------------------------------------
(* Byte strings and the primitives of hashlib, Crypto and base64 *)

\* AES.block_size
BlockSize == 16
\* the size of a SHA-256 digest, the AES-256 key
Sha256Len == 32
\* the size of an MD5 digest, the IV
Md5Len == 16

\* A byte string: the bytes of an ASCII text followed by raw bytes.
Bytes(text, tail) == [text |-> text, tail |-> tail]
ByteLen(b) == Len(b.text) + Len(b.tail)
\* s.encode('utf-8'), for the ASCII text json.dumps produces
Utf8Encode(s) == Bytes(s, <<>>)

\* hashlib.sha256(data).digest() and hashlib.md5(data).digest()
Sha256(data) == [alg |-> "sha256", of |-> data, len |-> Sha256Len]
Md5(data)    == [alg |-> "md5", of |-> data, len |-> Md5Len]

\* Faulty variant of pad: no padding block for data of whole blocks
pad_unless_aligned(data, block) ==
    LET n == (block - (ByteLen(data) % block)) % block
    IN  Bytes(data.text, data.tail \o [i \in 1..n |-> n])

\* Crypto.Util.Padding.pad(data, block): PKCS#7, always 1..block bytes
pad(data, block) ==
    LET n == block - (ByteLen(data) % block)
    IN  Bytes(data.text, data.tail \o [i \in 1..n |-> n])

\* AES.new(key, AES.MODE_CBC, iv) accepts the key and the IV
AesAccepts(key, iv) == key.len \in {16, 24, 32} /\ iv.len = BlockSize
\* cipher.encrypt(data), for data of whole blocks
AesCbcEncrypt(key, iv, data) ==
    [alg |-> "aes-cbc", key |-> key, iv |-> iv, plain |-> data,
     len |-> ByteLen(data)]

\* iv + ciphertext
Concat(iv, ciphertext) ==
    [head |-> iv, rest |-> ciphertext, len |-> iv.len + ciphertext.len]
\* base64.b64encode(data).decode('utf-8')
B64Encode(data) == [b64 |-> data]

\* encrypt_payload's locals, in the order the code computes them
EncKey(secret)       == Sha256(Utf8Encode(secret))
EncIv(secret)        == Md5(Utf8Encode(secret))
EncPadded(payload)   == pad(Utf8Encode(JsonDumps(payload)), BlockSize)
EncCombined(payload, secret) ==
    Concat(EncIv(secret),
           AesCbcEncrypt(EncKey(secret), EncIv(secret), EncPadded(payload)))

\* encrypt_payload(payload, secret): <<envelope>>, or <<>> for CryptoError
encrypt_payload(payload, secret) ==
    IF /\ Serializable(payload)
       /\ AesAccepts(EncKey(secret), EncIv(secret))
       /\ ByteLen(EncPadded(payload)) % BlockSize = 0
    THEN << [ciphertext |-> B64Encode(EncCombined(payload, secret))] >>
    ELSE << >>

\* str(e) of the exception the except clause of encrypt_payload wraps: the
\* TypeError of json.dumps, or the ValueError of the cipher
encrypt_error_text(payload, secret) ==
    IF ~Serializable(payload) THEN JsonDumpsErrorText(payload)
    ELSE IF ByteLen(EncKey(secret)) # Sha256Len
    THEN "Incorrect AES key length (" \o ToString(ByteLen(EncKey(secret))) \o " bytes)"
    ELSE IF ~AesAccepts(EncKey(secret), EncIv(secret))
    THEN "Incorrect IV length (it must be 16 bytes long)"
    ELSE "Data must be padded to 16 byte boundary in CBC mode"

\* sign_payload(encrypted_data, secret, timestamp): the hex digest of
\* HMAC-SHA256 keyed by the secret over "<ciphertext>:<timestamp>"
sign_payload(encrypted_data, secret, timestamp) ==
    LET ciphertext == IF "ciphertext" \in DOMAIN encrypted_data
                      THEN << encrypted_data["ciphertext"] >> ELSE << >>
        message    == << ciphertext, ":", timestamp >>
    IN  [alg |-> "hmac-sha256-hex", key |-> Utf8Encode(secret), msg |-> message]

----------------------------------------------------------------------------
(* create_intent: the inputs the model calls it with *)

\* ZKIntentSDK(api_key, hmac_secret, base_url) with its checks passed
Sdks == { [api_key |-> "key-1", hmac_secret |-> h, base_url |-> "http://localhost:8000/api"]
            : h \in {"s3cr3t", "other-secret"} }

\* recipient: 19, 20 and 42 characters, and a non-string
Recipients == { PyStr("0xaaaaaaaaaaaaaaaaa"),
                PyStr("0xaaaaaaaaaaaaaaaaaa"),
                PyStr("0xaaaaaaaaaaaaaaaaaaaaaaaaaaaaaaaaaaaaaaaa"),
                PyInt("12345678901234567890", 1) }
\* amount: positive, zero and negative numbers, booleans, a string, None
Amounts == { PyInt("1", 1), PyInt("0", 0), PyInt("-1", -1),
             PyFloat("1.5", 1), PyFloat("0.0001", 1), PyFloat("0.0", 0),
             PyTrue, PyFalse, PyStr("1"), PyNone }
\* token: a string, and a value json.dumps cannot serialise
Tokens == { PyStr("ETH"), PyBytes("ETH") }
WalletTypes == { PyStr("eip-155") }
\* keys beyond the four required ones
Extras == { << >>,
            << KV("walletSignature", PyStr("old")), KV("note", PyStr("n")) >> }

\* every choice of which required keys are present, with which values
Opt(k, values) == { << >> } \cup { << KV(k, v) >> : v \in values }
DictPayloads ==
    { PyDict(r \o a \o t \o w \o x) :
        r \in Opt("recipient", Recipients), a \in Opt("amount", Amounts),
        t \in Opt("token", Tokens), w \in Opt("walletType", WalletTypes),
        x \in Extras }
\* the same keys in another insertion order
Reordered ==
    { PyDict(x \o << KV("walletType", w), KV("token", PyStr("ETH")),
                     KV("amount", a), KV("recipient", r) >>) :
        x \in Extras, w \in WalletTypes, a \in {PyFloat("1.5", 1), PyInt("0", 0)},
        r \in Recipients }
Payloads == DictPayloads \cup Reordered
              \cup { PyNone, PyList(<< PyInt("1", 1) >>), PyStr("payload") }
WalletSignatures == { PyStr("0xsig"), PyStr(""), PyNone, PyInt("7", 1) }
Metadatas == { PyNone, PyDict(<< KV("note", PyStr("Test")) >>) }

----------------------------------------------------------------------------
(* create_intent: validation *)

required_fields == << "recipient", "amount", "token", "walletType" >>
\* the shortest recipient accepted
MinRecipientLen == 20

\* isinstance(v, (int, float)): bool is a subclass of int
IsIntOrFloat(v) == v.t \in {"int", "float", "bool"}

\* [field for field in required_fields if field not in payload]
missing_fields(payload) ==
    SelectSeq(required_fields, LAMBDA f : ~HasKey(payload, f))

\* Faulty variant of the validation: the sign of the amount is not checked
validate_without_sign_check(payload, wallet_signature) ==
    IF ~Truthy(payload) \/ payload.t # "dict"
    THEN "payload must be a non-empty dictionary"
    ELSE IF ~Truthy(wallet_signature) \/ wallet_signature.t # "str"
    THEN "wallet_signature is required and must be a string"
    ELSE IF missing_fields(payload) # << >>
    THEN "Missing required payload fields: "
            \o JoinWith(missing_fields(payload), ", ")
    ELSE IF ~IsIntOrFloat(Get(payload, "amount"))
    THEN "amount must be a positive number"
    ELSE IF \/ GetOr(payload, "recipient", PyStr("")).t # "str"
            \/ Len(GetOr(payload, "recipient", PyStr("")).s) < MinRecipientLen
    THEN "recipient must be a valid address string"
    ELSE ""

\* _validate_create_intent_input: the message of the ValidationError it
\* raises, or "" when it returns
validate_create_intent_input(payload, wallet_signature) ==
    IF ~Truthy(payload) \/ payload.t # "dict"
    THEN "payload must be a non-empty dictionary"
    ELSE IF ~Truthy(wallet_signature) \/ wallet_signature.t # "str"
    THEN "wallet_signature is required and must be a string"
    ELSE IF missing_fields(payload) # << >>
    THEN "Missing required payload fields: "
            \o JoinWith(missing_fields(payload), ", ")
    ELSE IF ~IsIntOrFloat(Get(payload, "amount")) \/ Get(payload, "amount").sgn <= 0
    THEN "amount must be a positive number"
    ELSE IF \/ GetOr(payload, "recipient", PyStr("")).t # "str"
            \/ Len(GetOr(payload, "recipient", PyStr("")).s) < MinRecipientLen
    THEN "recipient must be a valid address string"
    ELSE ""


----------------------------------------------------------------------------
(* create_intent: the HTTP exchange *)

\* response bodies, as text
JsonBodies == { "{\"intentId\":\"i-1\",\"status\":\"pending\"}",
                "{\"message\":\"bad signature\"}",
                "{\"detail\":\"not found\"}",
                "{\"message\":\"m\",\"detail\":\"d\"}",
                "{\"message\":null,\"detail\":\"d\"}",
                "{}",
                "[1]" }
TextBodies == { "Internal Server Error", "" }
Statuses == { 200, 201, 304, 404, 500 }

\* what session.post produces: a response, or a RequestException without one
\* (a connection error, a timeout)
Replies ==
    { [kind |-> "response", status |-> st, text |-> b] :
        st \in Statuses, b \in JsonBodies \cup TextBodies }
    \cup { [kind |-> "error", status |-> 0, text |-> "Connection refused"] }

\* response.json(): <<value>>, or <<>> when the body is not JSON
ResponseJson(text) ==
    CASE text = "{\"intentId\":\"i-1\",\"status\":\"pending\"}" ->
            << PyDict(<< KV("intentId", PyStr("i-1")), KV("status", PyStr("pending")) >>) >>
      [] text = "{\"message\":\"bad signature\"}" ->
            << PyDict(<< KV("message", PyStr("bad signature")) >>) >>
      [] text = "{\"detail\":\"not found\"}" ->
            << PyDict(<< KV("detail", PyStr("not found")) >>) >>
      [] text = "{\"message\":\"m\",\"detail\":\"d\"}" ->
            << PyDict(<< KV("message", PyStr("m")), KV("detail", PyStr("d")) >>) >>
      [] text = "{\"message\":null,\"detail\":\"d\"}" ->
            << PyDict(<< KV("message", PyNone), KV("detail", PyStr("d")) >>) >>
      [] text = "{}"  -> << PyDict(<< >>) >>
      [] text = "[1]" -> << PyList(<< PyInt("1", 1) >>) >>
      [] OTHER -> << >>

\* response.raise_for_status() raises HTTPError: a 4xx or 5xx status
RaisesForStatus(status) == status >= 400 /\ status < 600

\* the text of the error response.json() raises for a body that is not JSON
JsonErrorText == "Expecting value: line 1 column 1 (char 0)"

\* _extract_error_message(error), for an error that carries a response: the
\* value of "message", else of "detail", else the text; the text when the
\* body is not a JSON object
extract_error_message(reply) ==
    LET data == ResponseJson(reply.text)
    IN  IF data = << >> \/ data[1].t # "dict" THEN PyStr(reply.text)
        ELSE GetOr(data[1], "message",
                   GetOr(data[1], "detail", PyStr(reply.text)))

\* how a call ends: kind is "returned" or the exception raised; status is
\* <<status_code>> or <<>> for None; value is <<the value returned>>
Outcome(kind, message, status, value) ==
    [kind |-> kind, message |-> message, status |-> status, value |-> value]
NoOutcome == Outcome("none", "", << >>, << >>)
APIError(message, status) ==
    Outcome("APIError", "API request failed: " \o message, status, << >>)

\* the try block around session.post and its except clause
handle_reply(reply) ==
    IF reply.kind = "error"
    THEN APIError(reply.text, << >>)
    ELSE IF RaisesForStatus(reply.status)
    THEN APIError(PyFormat(extract_error_message(reply)), << reply.status >>)
    ELSE IF ResponseJson(reply.text) = << >>
    THEN \* requests' JSONDecodeError is a RequestException without a response
         APIError(JsonErrorText, << >>)
    ELSE IF ResponseJson(reply.text)[1].t # "dict"
    THEN \* result.get('intentId') in the success message
         Outcome("AttributeError",
                 "'" \o PyTypeName(ResponseJson(reply.text)[1])
                     \o "' object has no attribute 'get'", << >>, << >>)
    ELSE Outcome("returned", "", << >>, ResponseJson(reply.text))

\* datetime.utcnow().isoformat() + "Z"
utc_timestamp == "2024-01-01T00:00:0" \o ToString(now) \o "Z"

\* Faulty variant of the header timestamp: the clock is read again
header_timestamp_fresh == utc_timestamp

\* the timestamp and the signature put in the request headers
header_timestamp == ci_timestamp[1]
header_signature == ci_signature[1]

\* the arguments of session.post(url, json=request_data, headers=headers)
post_request ==
    [url  |-> sdk.base_url \o "/intents/",
     json |-> [intent        |-> [payload |-> ci_in.payload],
               encryptedData |-> ci_encrypted[1],
               metadata      |-> IF Truthy(ci_in.metadata) THEN ci_in.metadata
                                 ELSE PyDict(<< >>)],
     headers |-> [content_type |-> "application/json",
                  x_api_key    |-> sdk.api_key,
                  x_signature  |-> header_signature,
                  x_timestamp  |-> header_timestamp]]


----------------------------------------------------------------------------
(* create_intent: the method, statement by statement *)

Log(event) == Append(ci_log, event)

\* the caller invokes create_intent(payload, wallet_signature, metadata)
CreateIntent(payload, wallet_signature, metadata) ==
    /\ op = "none"
    /\ op' = "create_intent"
    /\ ci_pc' = "validate"
    /\ ci_in' = [payload |-> payload, wallet_signature |-> wallet_signature,
                 metadata |-> metadata]
    /\ UNCHANGED <<sdk, now, ci_combined, ci_encrypted, ci_timestamp,
                   ci_signature, ci_posts, ci_reply, ci_log, ci_out, ls_vars>>

\* 1: self._validate_create_intent_input(payload, wallet_signature)
ValidateInput ==
    /\ op = "create_intent" /\ ci_pc = "validate"
    /\ ci_log' = Log("validate")
    /\ LET msg == validate_create_intent_input(ci_in.payload, ci_in.wallet_signature)
       IN  IF msg # ""
           THEN /\ ci_out' = Outcome("ValidationError", msg, << >>, << >>)
                /\ ci_pc' = "done"
           ELSE /\ ci_pc' = "encrypt"
                /\ UNCHANGED ci_out
    /\ UNCHANGED <<sdk, op, now, ci_in, ci_combined, ci_encrypted, ci_timestamp,
                   ci_signature, ci_posts, ci_reply, ls_vars>>

\* 2, 3: combined_data = {**payload, 'walletSignature': wallet_signature};
\*       encrypted_data = encrypt_payload(combined_data, self.hmac_secret)
EncryptCombined ==
    /\ op = "create_intent" /\ ci_pc = "encrypt"
    /\ ci_log' = Log("encrypt")
    /\ LET combined == MergeKey(ci_in.payload, "walletSignature", ci_in.wallet_signature)
           encrypted == encrypt_payload(combined, sdk.hmac_secret)
       IN  /\ ci_combined' = << combined >>
           /\ ci_encrypted' = encrypted
           /\ IF encrypted = << >>
              THEN /\ ci_out' = Outcome("CryptoError",
                                        "Encryption failed: "
                                           \o encrypt_error_text(combined, sdk.hmac_secret),
                                        << >>, << >>)
                   /\ ci_pc' = "done"
              ELSE /\ ci_pc' = "timestamp"
                   /\ UNCHANGED ci_out
    /\ UNCHANGED <<sdk, op, now, ci_in, ci_timestamp, ci_signature, ci_posts,
                   ci_reply, ls_vars>>

\* 4a: timestamp = datetime.utcnow().isoformat() + "Z"
CaptureTimestamp ==
    /\ op = "create_intent" /\ ci_pc = "timestamp"
    /\ ci_log' = Log("utcnow")
    /\ ci_timestamp' = << utc_timestamp >>
    /\ ci_pc' = "sign"
    /\ UNCHANGED <<sdk, op, now, ci_in, ci_combined, ci_encrypted, ci_signature,
                   ci_posts, ci_reply, ci_out, ls_vars>>

\* 4b: signature = sign_payload(encrypted_data, self.hmac_secret, timestamp)
SignRequest ==
    /\ op = "create_intent" /\ ci_pc = "sign"
    /\ ci_log' = Log("sign")
    /\ ci_signature' = << sign_payload(ci_encrypted[1], sdk.hmac_secret, ci_timestamp[1]) >>
    /\ ci_pc' = "post"
    /\ UNCHANGED <<sdk, op, now, ci_in, ci_combined, ci_encrypted, ci_timestamp,
                   ci_posts, ci_reply, ci_out, ls_vars>>

\* 5, 6: response = self.session.post(url, json=request_data, headers=headers)
PostRequest ==
    /\ op = "create_intent" /\ ci_pc = "post"
    /\ ci_log' = Log("post")
    /\ ci_posts' = Append(ci_posts, post_request)
    /\ ci_pc' = "wait"
    /\ UNCHANGED <<sdk, op, now, ci_in, ci_combined, ci_encrypted, ci_timestamp,
                   ci_signature, ci_reply, ci_out, ls_vars>>

\* Faulty variant of the reply handling: a transport error is retried
ReceiveReply_retry(reply) ==
    /\ op = "create_intent" /\ ci_pc = "wait"
    /\ ci_reply' = << reply >>
    /\ IF reply.kind = "error"
       THEN ci_pc' = "post" /\ UNCHANGED ci_out
       ELSE ci_pc' = "done" /\ ci_out' = handle_reply(reply)
    /\ UNCHANGED <<sdk, op, now, ci_in, ci_combined, ci_encrypted, ci_timestamp,
                   ci_signature, ci_posts, ci_log, ls_vars>>

\* session.post returns or raises; the rest of the try block and its except
ReceiveReply(reply) ==
    /\ op = "create_intent" /\ ci_pc = "wait"
    /\ ci_reply' = << reply >>
    /\ ci_out' = handle_reply(reply)
    /\ ci_pc' = "done"
    /\ UNCHANGED <<sdk, op, now, ci_in, ci_combined, ci_encrypted, ci_timestamp,
                   ci_signature, ci_posts, ci_log, ls_vars>>

\* time passes between the statements that run from the end of validation
\* to the dispatch of the request (the clock is read nowhere else)
Tick ==
    /\ op = "create_intent" /\ ci_pc \in {"encrypt", "timestamp", "sign", "post"}
    /\ now < MaxClock
    /\ now' = now + 1
    /\ UNCHANGED <<sdk, op, ci_vars, ls_vars>>


----------------------------------------------------------------------------
(* listen_proof / connect_websocket: frames, parsing, exceptions *)

\* text frames: two JSON values, a text that is not JSON, and two texts
\* json.loads fails on without a JSONDecodeError: an integer of more digits
\* than int() converts ("1" * 5000) and nesting deeper than the recursion
\* limit ("[" * 100000)
TextFrames == { "{\"proof\":\"0xabc\"}", "null", "not json",
                "<5000 digits>", "<100000 nested lists>" }
Frames == { [kind |-> "bytes", body |-> ""] }
            \cup { [kind |-> "text", body |-> b] : b \in TextFrames }
\* how the peer ends the connection: a close handshake with a normal code
\* (ConnectionClosedOK), or an abnormal termination (ConnectionClosedError)
Closes == { "ConnectionClosedOK", "ConnectionClosedError" }

RECURSIVE SeqsUpTo(_, _)
\* the sequences over S of length at most n
SeqsUpTo(S, n) ==
    IF n = 0 THEN { << >> }
    ELSE LET shorter == SeqsUpTo(S, n - 1)
         IN  shorter \cup { Append(q, x) : q \in { r \in shorter : Len(r) = n - 1 }, x \in S }

\* what a peer may do: send some frames, then close
Scripts == { [frames |-> f, close |-> c] : f \in SeqsUpTo(Frames, MaxFrames), c \in Closes }

\* json.loads(message): [exc |-> "", value |-> <<v>>], or the exception raised
JsonLoads(body) ==
    CASE body = "{\"proof\":\"0xabc\"}" ->
            [exc |-> "", value |-> << PyDict(<< KV("proof", PyStr("0xabc")) >>) >>]
      [] body = "null" -> [exc |-> "", value |-> << PyNone >>]
      [] body = "<5000 digits>" -> [exc |-> "ValueError", value |-> << >>]
      [] body = "<100000 nested lists>" -> [exc |-> "RecursionError", value |-> << >>]
      [] OTHER -> [exc |-> "JSONDecodeError", value |-> << >>]

\* what the callback may do when invoked: return, or raise
HandlerOutcomes == { "", "JSONDecodeError", "ConnectionClosedOK", "KeyError", "SystemExit" }

\* the except clauses of connect_websocket, innermost first
IsJSONDecodeError(exc)  == exc = "JSONDecodeError"
IsConnectionClosed(exc) == exc \in { "ConnectionClosedOK", "ConnectionClosedError" }
\* SystemExit derives from BaseException only
IsException(exc)        == exc # "SystemExit"

\* what an exception raised by json.loads or the callback leads to:
\* "continue" (caught in the loop body), "break" (the loop ends), "raise"
\* (it leaves the loop and the "async with" block)
AfterBodyException(exc) ==
    IF IsJSONDecodeError(exc) THEN "continue"
    ELSE IF IsConnectionClosed(exc) THEN "break"
    ELSE "raise"

\* what an exception raised by websocket.recv() leads to
AfterRecvException(exc) ==
    IF IsConnectionClosed(exc) THEN "break" ELSE "raise"

\* how the call ends for an exception that reaches the outer except clause
Propagated(exc) ==
    IF IsException(exc)
    THEN Outcome("WebSocketError", "WebSocket connection failed: " \o exc, << >>, << >>)
    ELSE Outcome(exc, "", << >>, << >>)

\* the state the listener is in when the call ends with an outcome
EndState(out) == IF out.kind = "returned" THEN "Closed" ELSE "Failed"

\* one pass of the loop body for a frame, the callback ending as h:
\* the values delivered, whether the callback ran, and what follows
loop_body(frame, h) ==
    IF frame.kind = "bytes"
    THEN [deliver |-> << >>, called |-> << >>, next |-> "continue", exc |-> ""]
    ELSE LET parsed == JsonLoads(frame.body)
         IN  IF parsed.exc # ""
             THEN [deliver |-> << >>, called |-> << >>,
                   next |-> AfterBodyException(parsed.exc), exc |-> parsed.exc]
             ELSE [deliver |-> parsed.value, called |-> << h >>,
                   next |-> IF h = "" THEN "continue" ELSE AfterBodyException(h),
                   exc |-> h]

\* Faulty variant of the release: the connection is closed after the loop
\* only, not when an exception leaves the block
release_on_break_only(how) == IF how = "break" THEN ls_released + 1 ELSE ls_released

\* leaving the "async with" block closes the connection, whether the block
\* is left by the loop's break ("break") or by an exception ("raise")
release_on_exit(how) == ls_released + 1


----------------------------------------------------------------------------
(* listen_proof / connect_websocket: the call, step by step *)

IntentIds == { "", "intent-1" }

\* the listen call ends with an outcome
Finish(out) ==
    /\ ls_out' = out
    /\ ls_pc' = EndState(out)

\* control leaves the body of the "async with" block, by the loop's break
\* ("break") or by an exception ("raise"); the connection is still open
Leave(how, exc) ==
    /\ ls_pc' = "Leaving"
    /\ ls_leaving' = << [how |-> how, exc |-> exc] >>
    /\ UNCHANGED <<ls_out, ls_released, ls_conn>>

\* the caller invokes listen_proof(intent_id, callback) on a peer that will
\* behave as the script says
Listen(intent_id, script) ==
    /\ op = "none"
    /\ op' = "listen"
    /\ IF intent_id = ""
       THEN /\ ls_out' = Outcome("ValidationError", "intent_id is required", << >>, << >>)
            /\ ls_pc' = "Rejected"
            /\ UNCHANGED ls_script
       ELSE /\ ls_pc' = "Connecting"
            /\ ls_script' = script
            /\ UNCHANGED ls_out
    /\ UNCHANGED <<sdk, now, ci_vars, ls_connects, ls_conn, ls_released, ls_sent,
                   ls_recvs, ls_delivered, ls_handler, ls_leaving>>

\* websockets.connect(ws_url) succeeds: the "async with" block is entered
ConnectOk ==
    /\ op = "listen" /\ ls_pc = "Connecting"
    /\ ls_connects' = ls_connects + 1
    /\ ls_conn' = "open"
    /\ ls_pc' = "Connected"
    /\ UNCHANGED <<sdk, op, now, ci_vars, ls_released, ls_sent, ls_script, ls_recvs,
                   ls_delivered, ls_handler, ls_leaving, ls_out>>

\* websockets.connect(ws_url) raises: refused, unreachable, handshake rejected
ConnectFail ==
    /\ op = "listen" /\ ls_pc = "Connecting"
    /\ ls_connects' = ls_connects + 1
    /\ Finish(Propagated("OSError"))
    /\ UNCHANGED <<sdk, op, now, ci_vars, ls_conn, ls_released, ls_sent, ls_script,
                   ls_recvs, ls_delivered, ls_handler, ls_leaving>>

\* Faulty variant of the ping: the loop is entered without a ping
PingOk_silent ==
    /\ op = "listen" /\ ls_pc = "Connected"
    /\ ls_pc' = "Receiving"
    /\ UNCHANGED <<sdk, op, now, ci_vars, ls_connects, ls_conn, ls_released, ls_sent,
                   ls_script, ls_recvs, ls_delivered, ls_handler, ls_leaving, ls_out>>

\* await websocket.ping() on the open connection
PingOk ==
    /\ op = "listen" /\ ls_pc = "Connected"
    /\ ls_sent' = Append(ls_sent, "ping")
    /\ ls_pc' = "Receiving"
    /\ UNCHANGED <<sdk, op, now, ci_vars, ls_connects, ls_conn, ls_released,
                   ls_script, ls_recvs, ls_delivered, ls_handler, ls_leaving, ls_out>>

\* await websocket.ping() raises: the peer has already closed the connection
PingFail ==
    /\ op = "listen" /\ ls_pc = "Connected"
    /\ Leave("raise", ls_script.close)
    /\ UNCHANGED <<sdk, op, now, ci_vars, ls_connects, ls_sent, ls_script, ls_recvs,
                   ls_delivered, ls_handler>>

\* one pass of the loop: websocket.recv() returns the next frame, and the
\* callback, when invoked, ends as h
ReceiveFrame(h) ==
    /\ op = "listen" /\ ls_pc = "Receiving"
    /\ ls_recvs < Len(ls_script.frames)
    /\ LET body == loop_body(ls_script.frames[ls_recvs + 1], h)
       IN  /\ body.called = << >> => h = ""
           /\ ls_recvs' = ls_recvs + 1
           /\ ls_delivered' = ls_delivered \o body.deliver
           /\ ls_handler' = ls_handler \o body.called
           /\ CASE body.next = "continue" ->
                     UNCHANGED <<ls_pc, ls_out, ls_released, ls_conn, ls_leaving>>
                [] body.next = "break" -> Leave("break", "")
                [] body.next = "raise" -> Leave("raise", body.exc)
    /\ UNCHANGED <<sdk, op, now, ci_vars, ls_connects, ls_sent, ls_script>>

\* websocket.recv() raises: the peer has closed the connection
ReceiveClose ==
    /\ op = "listen" /\ ls_pc = "Receiving"
    /\ ls_recvs = Len(ls_script.frames)
    /\ ls_recvs' = ls_recvs + 1
    /\ IF AfterRecvException(ls_script.close) = "break"
       THEN Leave("break", "")
       ELSE Leave("raise", ls_script.close)
    /\ UNCHANGED <<sdk, op, now, ci_vars, ls_connects, ls_sent, ls_script,
                   ls_delivered, ls_handler>>

\* the "async with" block is exited: the connection is closed, then the
\* call returns (after a break) or the exception goes on to the outer
\* except clause
ExitBlock ==
    /\ op = "listen" /\ ls_pc = "Leaving"
    /\ ls_released' = release_on_exit(ls_leaving[1].how)
    /\ ls_conn' = IF ls_released' > ls_released THEN "closed" ELSE ls_conn
    /\ IF ls_leaving[1].how = "break"
       THEN Finish(Outcome("returned", "", << >>, << >>))
       ELSE Finish(Propagated(ls_leaving[1].exc))
    /\ UNCHANGED <<sdk, op, now, ci_vars, ls_connects, ls_sent, ls_script, ls_recvs,
                   ls_delivered, ls_handler, ls_leaving>>

----------------------------------------------------------------------------
(* The specification *)

Init ==
    /\ sdk \in Sdks
    /\ op = "none"
    /\ now = 0
    /\ ci_pc = "idle"
    /\ ci_in = [payload |-> PyNone, wallet_signature |-> PyNone, metadata |-> PyNone]
    /\ ci_combined = << >>
    /\ ci_encrypted = << >>
    /\ ci_timestamp = << >>
    /\ ci_signature = << >>
    /\ ci_posts = << >>
    /\ ci_reply = << >>
    /\ ci_log = << >>
    /\ ci_out = NoOutcome
    /\ ls_pc = "Idle"
    /\ ls_connects = 0
    /\ ls_conn = "none"
    /\ ls_released = 0
    /\ ls_sent = << >>
    /\ ls_script = [frames |-> << >>, close |-> "ConnectionClosedOK"]
    /\ ls_recvs = 0
    /\ ls_delivered = << >>
    /\ ls_handler = << >>
    /\ ls_leaving = << >>
    /\ ls_out = NoOutcome

Next ==
    \/ \E p \in Payloads, w \in WalletSignatures, m \in Metadatas : CreateIntent(p, w, m)
    \/ ValidateInput
    \/ EncryptCombined
    \/ CaptureTimestamp
    \/ SignRequest
    \/ PostRequest
    \/ \E reply \in Replies : ReceiveReply(reply)
    \/ Tick
    \/ \E i \in IntentIds, script \in Scripts : Listen(i, script)
    \/ ConnectOk
    \/ ConnectFail
    \/ PingOk
    \/ PingFail
    \/ \E h \in HandlerOutcomes : ReceiveFrame(h)
    \/ ReceiveClose
    \/ ExitBlock

Spec == Init /\ [][Next]_vars


----------------------------------------------------------------------------
(* Properties of create_intent *)

Last(q) == q[Len(q)]
Count(q, x) == Cardinality({ i \in 1..Len(q) : q[i] = x })
Before(q, x, y) ==
    \A i, j \in 1..Len(q) : (q[i] = x /\ q[j] = y) => i < j

\* The validation rules, as the specification words them.
NotNonEmptyMapping(v) == v.t # "dict" \/ v.items = << >>
NotNonEmptyString(v)  == v.t # "str" \/ v.s = ""
ViolatesRule(in) ==
    \/ NotNonEmptyMapping(in.payload)
    \/ NotNonEmptyString(in.wallet_signature)
    \/ \E f \in {"recipient", "amount", "token", "walletType"} : ~HasKey(in.payload, f)
    \/ Get(in.payload, "amount").t \notin {"int", "float", "bool"}
    \/ Get(in.payload, "amount").sgn <= 0
    \/ Get(in.payload, "recipient").t # "str"
    \/ Len(Get(in.payload, "recipient").s) < 20

\* C1: a create_intent call whose input violates a validation rule ends
\* with ValidationError, and at no point of the call has anything been
\* encrypted, signed or posted.
C1_InvalidInputFailsFast ==
    (op = "create_intent" /\ ViolatesRule(ci_in)) =>
        /\ ci_pc \in {"validate", "done"}
        /\ ci_pc = "done" => ci_out.kind = "ValidationError"
        /\ \A i \in 1..Len(ci_log) : ci_log[i] = "validate"
        /\ ci_encrypted = << >> /\ ci_signature = << >> /\ ci_posts = << >>

\* a payload without "amount" has been rejected, the message naming the field
C1_Witness ==
    /\ ci_pc = "done"
    /\ ci_in.payload.t = "dict"
    /\ missing_fields(ci_in.payload) = << "amount" >>
    /\ ci_in.wallet_signature = PyStr("0xsig")
    /\ ci_out.kind = "ValidationError"
    /\ ci_out.message = "Missing required payload fields: amount"
    /\ ci_log = << "validate" >>

\* C2: in every POST create_intent dispatches, x-signature is the signature
\* of the envelope in the body's encryptedData under the SDK's secret and the
\* value of x-timestamp; the timestamp is captured once per call, after the
\* encryption and before the signing.
C2_SignatureCoversWhatIsSent ==
    /\ \A i \in 1..Len(ci_posts) :
          /\ ci_posts[i].headers.x_signature
                = sign_payload(ci_posts[i].json.encryptedData, sdk.hmac_secret,
                               ci_posts[i].headers.x_timestamp)
          /\ ci_posts[i].headers.x_timestamp = ci_timestamp[1]
          /\ ci_posts[i].json.encryptedData = ci_encrypted[1]
    /\ Count(ci_log, "utcnow") <= 1
    /\ Count(ci_log, "utcnow") = Len(ci_timestamp)
    /\ Before(ci_log, "encrypt", "utcnow")
    /\ Before(ci_log, "utcnow", "sign")
    /\ Before(ci_log, "sign", "post")
    /\ ci_log # << >> /\ Last(ci_log) \in {"utcnow", "sign", "post"}
          => Count(ci_log, "encrypt") = 1
    /\ ci_log # << >> /\ Last(ci_log) \in {"sign", "post"}
          => Count(ci_log, "utcnow") = 1

\* a request has been dispatched, and the clock has moved on since the
\* timestamp was captured
C2_Witness ==
    /\ ci_pc = "wait"
    /\ Len(ci_posts) = 1
    /\ ci_posts[1].headers.x_timestamp = "2024-01-01T00:00:00Z"
    /\ utc_timestamp = "2024-01-01T00:00:02Z"


(* The reverse recipe: derive the same key and IV, strip the IV, AES-CBC  *)
(* decrypt, unpad.                                                         *)

\* Crypto.Util.Padding.unpad(data, block): <<data without padding>>, or <<>>
unpad(data, block) ==
    LET total == ByteLen(data)
        k     == Len(data.tail)
        n     == IF k = 0 THEN 0 ELSE data.tail[k]
    IN  IF /\ total > 0
           /\ total % block = 0
           /\ n >= 1 /\ n <= block /\ n <= k
           /\ \A i \in (k - n + 1)..k : data.tail[i] = n
        THEN << Bytes(data.text, SubSeq(data.tail, 1, k - n)) >>
        ELSE << >>

\* cipher.decrypt(ciphertext) under (key, iv): <<plaintext>>, or <<>> when the
\* key or the IV is not the one the ciphertext was made with
AesCbcDecrypt(key, iv, ciphertext) ==
    IF ciphertext.key = key /\ ciphertext.iv = iv
    THEN << ciphertext.plain >> ELSE << >>

\* the JSON text an envelope decrypts to under a secret: <<text>>, or <<>>
decrypt_envelope(envelope, secret) ==
    LET combined == envelope.ciphertext.b64
        body     == IF combined.head.len = Md5Len THEN << combined.rest >> ELSE << >>
        plain    == IF body = << >> THEN << >>
                    ELSE AesCbcDecrypt(EncKey(secret), EncIv(secret), body[1])
        data     == IF plain = << >> THEN << >> ELSE unpad(plain[1], BlockSize)
    IN  IF data = << >> \/ data[1].tail # << >> THEN << >>
        ELSE << data[1].text >>


\* d is p with "walletSignature" merged in: the key holds the wallet
\* signature, every other key of p keeps its value and its place, and no
\* other key is added
MergedIn(d, p, w) ==
    /\ d.t = "dict"
    /\ HasKey(d, "walletSignature") /\ Get(d, "walletSignature") = w
    /\ \A i \in 1..Len(p.items) :
          /\ d.items[i].k = p.items[i].k
          /\ p.items[i].k # "walletSignature" => d.items[i].v = p.items[i].v
    /\ \A i \in 1..Len(d.items) :
          /\ d.items[i].k = "walletSignature" \/ HasKey(p, d.items[i].k)
          /\ \A j \in 1..Len(d.items) : d.items[i].k = d.items[j].k => i = j

\* the end-to-end scenario of the specification
ScenarioPayload ==
    PyDict(<< KV("recipient", PyStr("0xaaaaaaaaaaaaaaaaaaaaaaaaaaaaaaaaaaaaaaaa")),
              KV("amount", PyFloat("1.5", 1)), KV("token", PyStr("ETH")),
              KV("walletType", PyStr("eip-155")) >>)
ScenarioJson ==
    "{\"recipient\":\"0xaaaaaaaaaaaaaaaaaaaaaaaaaaaaaaaaaaaaaaaa\",\"amount\":1.5,"
        \o "\"token\":\"ETH\",\"walletType\":\"eip-155\",\"walletSignature\":\"0xsig\"}"

\* C8: the envelope create_intent encrypts decodes to IV || ciphertext and
\* decrypts, by the reverse recipe under the same secret, to exactly the
\* canonical JSON of the payload with walletSignature merged in.
C8_EnvelopeDecryptsToMergedJson ==
    ci_encrypted # << >> =>
        /\ DOMAIN ci_encrypted[1] = {"ciphertext"}
        /\ ci_encrypted[1].ciphertext.b64.head = Md5(Utf8Encode(sdk.hmac_secret))
        /\ ci_encrypted[1].ciphertext.b64.head.len = 16
        /\ ci_encrypted[1].ciphertext.b64.rest.len % 16 = 0
        /\ ci_encrypted[1].ciphertext.b64.rest.len
              > Len(JsonDumps(ci_combined[1]))
        /\ MergedIn(ci_combined[1], ci_in.payload, ci_in.wallet_signature)
        /\ decrypt_envelope(ci_encrypted[1], sdk.hmac_secret)
              = << JsonDumps(ci_combined[1]) >>
        /\ (ci_in.payload = ScenarioPayload /\ ci_in.wallet_signature = PyStr("0xsig"))
              => decrypt_envelope(ci_encrypted[1], sdk.hmac_secret) = << ScenarioJson >>

\* an envelope has been made of a payload that already held a
\* walletSignature key
C8_Witness ==
    /\ ci_encrypted # << >>
    /\ HasKey(ci_in.payload, "walletSignature")
    /\ Get(ci_in.payload, "walletSignature") = PyStr("old")
    /\ Get(ci_combined[1], "walletSignature") = PyStr("0xsig")
    /\ ByteLen(EncPadded(ci_combined[1])) % 16 = 0
    /\ sdk.hmac_secret = "s3cr3t"

\* C9: nothing is retried: a create_intent call issues at most one POST and
\* a listen call makes at most one connection attempt, and once a call has
\* ended or the listener is Closed or Failed, the call does nothing more.
C9_Once ==
    /\ Len(ci_posts) <= 1
    /\ Count(ci_log, "post") <= 1
    /\ ls_connects <= 1
C9_NothingAfterTheEnd ==
    /\ ci_pc = "done" =>
          UNCHANGED <<ci_posts, ci_log, ci_reply, ci_out, ci_pc>>
    /\ ls_pc \in {"Closed", "Failed", "Rejected"} =>
          UNCHANGED <<ls_connects, ls_recvs, ls_delivered, ls_handler, ls_sent,
                      ls_out, ls_pc>>
C9_NoRetry == []C9_Once /\ [][C9_NothingAfterTheEnd]_vars

\* a POST has failed on a transport error, and the call has ended with it
C9_Witness ==
    /\ ci_pc = "done"
    /\ ci_reply = << [kind |-> "error", status |-> 0, text |-> "Connection refused"] >>
    /\ ci_out.kind = "APIError"
    /\ Len(ci_posts) = 1


\* the message the specification expects of an error response: the value
\* of the body's message field if present, else of its detail field, else
\* the raw text
ExpectedMessage(reply) ==
    LET data == ResponseJson(reply.text)
    IN  IF data # << >> /\ data[1].t = "dict" /\ HasKey(data[1], "message")
        THEN PyFormat(Get(data[1], "message"))
        ELSE IF data # << >> /\ data[1].t = "dict" /\ HasKey(data[1], "detail")
        THEN PyFormat(Get(data[1], "detail"))
        ELSE reply.text
Is2xx(status) == status >= 200 /\ status < 300

\* C7: when the POST fails by a transport error or a non-2xx status,
\* create_intent raises APIError with the response's status (none without a
\* response) and the message of the body's message field, else its detail
\* field, else the raw text (the error's own text without a response); when
\* the POST succeeds, create_intent returns the parsed JSON body unmodified.
C7_ReplyHandling ==
    ci_reply # << >> =>
        CASE ci_reply[1].kind = "error" ->
                /\ ci_out.kind = "APIError"
                /\ ci_out.status = << >>
                /\ ci_out.message = "API request failed: " \o ci_reply[1].text
          [] ci_reply[1].kind = "response" /\ ~Is2xx(ci_reply[1].status) ->
                /\ ci_out.kind = "APIError"
                /\ ci_out.status = << ci_reply[1].status >>
                /\ ci_out.message = "API request failed: " \o ExpectedMessage(ci_reply[1])
          [] ci_reply[1].kind = "response" /\ Is2xx(ci_reply[1].status)
                /\ ResponseJson(ci_reply[1].text) # << >> ->
                /\ ci_out.kind = "returned"
                /\ ci_out.value = ResponseJson(ci_reply[1].text)
          [] OTHER -> TRUE


----------------------------------------------------------------------------
(* Properties of the listener *)

Ended == ls_pc \in {"Closed", "Failed"}

RECURSIVE ParsedValues(_)
\* the values of the text frames that parse as JSON, in arrival order
ParsedValues(frames) ==
    IF frames = << >> THEN << >>
    ELSE (IF frames[1].kind = "text" THEN JsonLoads(frames[1].body).value ELSE << >>)
            \o ParsedValues(Tail(frames))

\* C3: for any frames followed by a close, the handler is invoked exactly
\* once for each text frame that parses as JSON, with the parsed value, in
\* arrival order; binary frames and text frames that fail to parse invoke
\* nothing and do not end the loop.  Stated of the calls that entered the
\* loop and whose handler returned normally every time.
C3_EveryParsedFrameDelivered ==
    (Ended /\ ls_sent = << "ping" >> /\ \A i \in 1..Len(ls_handler) : ls_handler[i] = "")
        => /\ ls_delivered = ParsedValues(ls_script.frames)
           /\ Len(ls_handler) = Len(ls_delivered)
           /\ ls_recvs = Len(ls_script.frames) + 1

\* C4: listen returns normally (Closed) when the peer closes cleanly; on
\* any other transport error (the connection cannot be established, or is
\* terminated abnormally) it ends in Failed, raising WebSocketError.  Stated
\* of the calls that a transport event ended: the connect, the ping or a
\* receive.
EndedByTransport ==
    /\ Ended
    /\ \/ ls_conn = "none"
       \/ ls_sent = << >>
       \/ ls_recvs = Len(ls_script.frames) + 1
C4_CleanCloseReturnsElseFails ==
    EndedByTransport =>
        IF ls_conn # "none" /\ ls_script.close = "ConnectionClosedOK"
        THEN ls_pc = "Closed" /\ ls_out.kind = "returned"
        ELSE ls_pc = "Failed" /\ ls_out.kind = "WebSocketError"

\* C5: on every exit of a listen call that reached Connected (a clean
\* close, a transport error, the handler raising) the connection is released
\* exactly once before the call ends; it is never left open and never
\* released twice.
C5_ReleasedExactlyOnce ==
    /\ ls_released <= 1
    /\ ls_conn = "none" => ls_released = 0
    /\ ls_pc \in {"Connected", "Receiving", "Leaving"}
          => ls_conn = "open" /\ ls_released = 0
    /\ (Ended /\ ls_conn # "none") => ls_conn = "closed" /\ ls_released = 1

\* the handler has raised, the call has ended with the connection released
C5_Witness ==
    /\ Ended
    /\ ls_handler # << >> /\ Last(ls_handler) = "KeyError"
    /\ ls_conn = "closed" /\ ls_released = 1

\* C6: once connected the listener sends exactly one ping, before it awaits
\* the first frame, and nothing else for the rest of the call, however many
\* frames it receives.
C6_OnePingOnly ==
    /\ Len(ls_sent) <= 1
    /\ \A i \in 1..Len(ls_sent) : ls_sent[i] = "ping"
    /\ ls_conn = "none" => ls_sent = << >>
    /\ (ls_pc = "Receiving" \/ ls_recvs > 0) => ls_sent = << "ping" >>

\* two frames have been received and delivered after the one ping
C6_Witness ==
    /\ ls_recvs = 2
    /\ Len(ls_delivered) = 2
    /\ ls_sent = << "ping" >>

\* C10: when the handler raises anything but a JSON decode error while
\* processing a frame, the listener stops receiving, delivers no later
\* frame, and listen ends by raising WebSocketError.
C10_HandlerErrorIsWebSocketError ==
    /\ \A i \in 1..(Len(ls_handler) - 1) : ls_handler[i] \in {"", "JSONDecodeError"}
    /\ (ls_handler # << >> /\ Last(ls_handler) \notin {"", "JSONDecodeError"})
          => /\ ls_pc \in {"Leaving", "Closed", "Failed"}
             /\ Ended => ls_pc = "Failed" /\ ls_out.kind = "WebSocketError"

============================================================================
